---- MODULE Spec2Model ----
(***************************************************************************)
(* A model of clinical_data_analysis.py: the date/age helpers, the         *)
(* clinical-description filter, and the pandas aggregations that build the *)
(* age, gender and diagnosis tables.                                       *)
(*                                                                         *)
(* Text is a sequence of one-character strings, so that strip, substring  *)
(* search and case folding are computed rather than assumed.  Python's     *)
(* None and NaN are tagged records, never the empty text.                  *)
(***************************************************************************)
EXTENDS Integers, Sequences, FiniteSets

VARIABLES
  pc,                  \* position in the script (or in the helper under test)
  args,                \* build_clinical_filter's arguments
  filter,              \* the closure build_clinical_filter returns
  desc,                \* the description handed to is_clinical
  verdict,             \* what is_clinical returned for desc
  birthdate,           \* compute_age_years' first argument
  as_of,               \* compute_age_years' second argument
  AGE,                 \* a single computed age
  AGE_GROUP,           \* a single pd.cut result
  patients_csv,        \* the rows of patients.csv as read_csv gives them
  analysis_date,       \* pd.Timestamp(date.today())
  patients,            \* the patients frame, a sequence of rows
  age_summary,         \* the age_summary dict
  age_dist,            \* the age distribution table
  gender_dist,         \* the gender distribution table
  conditions,          \* the conditions frame, a sequence of rows
  clinical_conditions, \* the rows with IS_CLINICAL
  top_dx_by_patients,  \* table: DESCRIPTION, UNIQUE_PATIENTS
  top_dx_by_records,   \* table: DESCRIPTION, RECORDS
  dx_demo,             \* clinical_conditions left-joined to patients
  top_dx_by_gender     \* table: GENDER, DESCRIPTION, UNIQUE_PATIENTS

filterVars == <<args, filter, desc, verdict>>
ageVars == <<birthdate, as_of, AGE, AGE_GROUP>>
demoVars == <<patients_csv, analysis_date, patients, age_summary, age_dist, gender_dist>>
dxVars == <<conditions, clinical_conditions, top_dx_by_patients,
            top_dx_by_records, dx_demo, top_dx_by_gender>>
vars == <<pc, filterVars, ageVars, demoVars, dxVars>>

\* A value no step has produced yet.
Unset == [kind |-> "unset"]

(***************************************************************************)
(* Text                                                                    *)
(***************************************************************************)
UpperLetters ==
  <<"A","B","C","D","E","F","G","H","I","J","K","L","M",
    "N","O","P","Q","R","S","T","U","V","W","X","Y","Z">>

LowerLetters ==
  <<"a","b","c","d","e","f","g","h","i","j","k","l","m",
    "n","o","p","q","r","s","t","u","v","w","x","y","z">>

Digits == {"0","1","2","3","4","5","6","7","8","9"}

LowerOf ==
  [c \in {UpperLetters[i] : i \in 1..26} |->
     LowerLetters[CHOOSE i \in 1..26 : UpperLetters[i] = c]]

\* Case folding as re.IGNORECASE does it on ASCII text.
Lower(c) == IF c \in DOMAIN LowerOf THEN LowerOf[c] ELSE c

\* The characters str.strip() removes.
IsSpace(c) == c \in {" ", "\t", "\n", "\r"}

\* A regex word character (\w), for \b.
IsWord(c) ==
  \/ Lower(c) \in {LowerLetters[i] : i \in 1..26}
  \/ c \in Digits
  \/ c = "_"

\* str.strip(): the text without its leading and trailing whitespace.
strip(s) ==
  IF \A i \in 1..Len(s) : IsSpace(s[i])
  THEN <<>>
  ELSE LET first == CHOOSE i \in 1..Len(s) :
                      ~IsSpace(s[i]) /\ \A j \in 1..(i-1) : IsSpace(s[j])
           last  == CHOOSE i \in 1..Len(s) :
                      ~IsSpace(s[i]) /\ \A j \in (i+1)..Len(s) : IsSpace(s[j])
       IN  SubSeq(s, first, last)

(***************************************************************************)
(* Python values a description can be                                      *)
(***************************************************************************)
PyNone == [kind |-> "None", s |-> <<>>]
PyNaN == [kind |-> "nan", s |-> <<>>]
PyStr(s) == [kind |-> "str", s |-> s]

(***************************************************************************)
(* Regular expressions.  A pattern text is                                 *)
(*    [\b] [(] lit | lit | ... [)] [\b] [$]                                *)
(* with every literal escaped; open/close say whether each parenthesis is  *)
(* written.  re.compile rejects a text whose parentheses do not balance.   *)
(***************************************************************************)
NoPattern ==
  [given |-> FALSE, open |-> FALSE, close |-> FALSE, wb |-> FALSE,
   eol |-> FALSE, alts |-> << <<>> >>]

Pattern(open, close, wb, eol, alts) ==
  [given |-> TRUE, open |-> open, close |-> close, wb |-> wb,
   eol |-> eol, alts |-> alts]

\* Python truthiness of the pattern argument: given and not the empty text.
Truthy(p) ==
  /\ p.given
  /\ ~(~p.open /\ ~p.close /\ ~p.wb /\ ~p.eol /\ p.alts = << <<>> >>)

NoRe == [set |-> FALSE, wb |-> FALSE, eol |-> FALSE, alts |-> <<>>]

\* re.compile(text, flags=re.IGNORECASE) of a text it accepts.
re_compile(p) == [set |-> TRUE, wb |-> p.wb, eol |-> p.eol, alts |-> p.alts]

\* A compile that accepts any text and leaves the error to the first search.
CompileDeferred(p) == FALSE

\* re.compile raises re.error: unbalanced parentheses.
CompileRaises(p) == p.open # p.close

\* The literal lit starts at position i of d, ignoring case.
MatchAt(lit, d, i) ==
  /\ i + Len(lit) - 1 <= Len(d)
  /\ \A k \in 1..Len(lit) : Lower(d[i + k - 1]) = Lower(lit[k])

\* \b at the gap before position i of d.
Boundary(d, i) ==
  LET before == i > 1 /\ IsWord(d[i - 1])
      after  == i <= Len(d) /\ IsWord(d[i])
  IN  before # after

\* $ at the gap before position i: the end, or before a final newline.
AtEnd(d, i) ==
  \/ i = Len(d) + 1
  \/ i = Len(d) /\ d[i] = "\n"

\* compiled.search(d) is not None.
re_search(re, d) ==
  \E a \in 1..Len(re.alts) : \E i \in 1..(Len(d) + 1) :
    /\ MatchAt(re.alts[a], d, i)
    /\ re.wb => Boundary(d, i) /\ Boundary(d, i + Len(re.alts[a]))
    /\ re.eol => AtEnd(d, i + Len(re.alts[a]))

(***************************************************************************)
(* build_clinical_filter and is_clinical                                   *)
(***************************************************************************)
DefaultKeywords ==
  << <<"e","m","p","l","o","y","m","e","n","t">>,
     <<"f","u","l","l","-","t","i","m","e">>,
     <<"p","a","r","t","-","t","i","m","e">>,
     <<"l","a","b","o","r"," ","f","o","r","c","e">>,
     <<"o","c","c","u","p","a","t","i","o","n">>,
     <<"s","o","c","i","a","l">>,
     <<"s","o","c","i","a","l"," ","i","s","o","l","a","t","i","o","n">>,
     <<"l","i","m","i","t","e","d"," ","s","o","c","i","a","l"," ","c","o","n","t","a","c","t">>,
     <<"h","o","u","s","i","n","g">>,
     <<"h","o","m","e","l","e","s","s">>,
     <<"e","d","u","c","a","t","i","o","n">>,
     <<"s","c","h","o","o","l">>,
     <<"m","e","d","i","c","a","t","i","o","n"," ","r","e","v","i","e","w">>,
     <<"r","e","v","i","e","w"," ","d","u","e">>,
     <<"s","c","r","e","e","n","i","n","g">>,
     <<"c","o","u","n","s","e","l","i","n","g">>,
     <<"r","e","f","e","r","r","a","l">>,
     <<"a","d","m","i","n","i","s","t","r","a","t","i","v","e">>,
     <<"s","i","t","u","a","t","i","o","n">>,
     <<"f","i","n","d","i","n","g"," ","o","f">> >>

\* exclude_keywords=None
NoKeywords == [given |-> FALSE, list |-> <<>>]
Keywords(list) == [given |-> TRUE, list |-> list]

\* [k for k in exclude_keywords if k]: the empty keywords are dropped.
RECURSIVE NonEmptyOnly(_)
NonEmptyOnly(list) ==
  IF list = <<>> THEN <<>>
  ELSE IF Head(list) = <<>> THEN NonEmptyOnly(Tail(list))
  ELSE <<Head(list)>> \o NonEmptyOnly(Tail(list))

\* kw_re: one alternation of the escaped keywords, or None when none is left.
KeywordRe(exclude_keywords) ==
  LET list == IF exclude_keywords.given THEN exclude_keywords.list
              ELSE DefaultKeywords
      kept == NonEmptyOnly(list)
  IN  IF kept = <<>> THEN NoRe
      ELSE [set |-> TRUE, wb |-> FALSE, eol |-> FALSE, alts |-> kept]

\* ex_re / in_re: compiled only when the argument is truthy.
OptionalRe(p) == IF Truthy(p) THEN re_compile(p) ELSE NoRe

\* The closure's body if a given exclude pattern replaced the keyword list.
is_clinical_exclusive(f, x) ==
  IF x.kind \in {"None", "nan"} THEN FALSE
  ELSE LET d == strip(x.s)
       IN  IF d = <<>> THEN FALSE
           ELSE IF f.in_re.set /\ ~re_search(f.in_re, d) THEN FALSE
           ELSE IF f.ex_re.set THEN ~re_search(f.ex_re, d)
           ELSE IF f.kw_re.set /\ re_search(f.kw_re, d) THEN FALSE
           ELSE TRUE

\* The closure's body, for the filter f = [kw_re, ex_re, in_re].
is_clinical(f, x) ==
  IF x.kind \in {"None", "nan"} THEN FALSE
  ELSE LET d == strip(x.s)
       IN  IF d = <<>> THEN FALSE
           ELSE IF f.in_re.set /\ ~re_search(f.in_re, d) THEN FALSE
           ELSE IF f.kw_re.set /\ re_search(f.kw_re, d) THEN FALSE
           ELSE IF f.ex_re.set /\ re_search(f.ex_re, d) THEN FALSE
           ELSE TRUE

\* build_clinical_filter(**args): raises at the first pattern re.compile
\* rejects, else returns the closure.
build_clinical_filter ==
  /\ pc = "build"
  /\ IF \/ Truthy(args.exclude_regex) /\ CompileRaises(args.exclude_regex)
        \/ Truthy(args.include_regex) /\ CompileRaises(args.include_regex)
     THEN /\ pc' = "raised"
          /\ filter' = filter
     ELSE /\ pc' = "built"
          /\ filter' = [kw_re |-> KeywordRe(args.exclude_keywords),
                        ex_re |-> OptionalRe(args.exclude_regex),
                        in_re |-> OptionalRe(args.include_regex)]
  /\ UNCHANGED <<args, desc, verdict, ageVars, demoVars, dxVars>>

(***************************************************************************)
(* The filter on its own: any arguments, any description.                  *)
(***************************************************************************)
MaxLen == 3
MaxKw == 2

Alphabet == {"a", "A", "b", " "}

RECURSIVE TextsUpTo(_)
TextsUpTo(n) ==
  IF n = 0 THEN {<<>>}
  ELSE LET shorter == TextsUpTo(n - 1)
       IN  shorter \cup {Append(s, c) : s \in shorter, c \in Alphabet}

ViralSinusitis == <<"V","i","r","a","l"," ","s","i","n","u","s","i","t","i","s"," ","(","d","i","s","o","r","d","e","r",")">>
FullTimeEmployment == <<"F","u","l","l","-","t","i","m","e"," ","e","m","p","l","o","y","m","e","n","t"," ","(","f","i","n","d","i","n","g",")">>

Descriptions ==
  {PyNone, PyNaN}
    \cup {PyStr(s) : s \in TextsUpTo(MaxLen)}
    \cup {PyStr(ViralSinusitis), PyStr(FullTimeEmployment)}

KeywordWords == {<<>>, <<"a">>, <<"a","b">>, <<" ","a">>}

RECURSIVE ListsUpTo(_)
ListsUpTo(n) ==
  IF n = 0 THEN {<<>>}
  ELSE LET shorter == ListsUpTo(n - 1)
       IN  shorter \cup {Append(l, w) : l \in shorter, w \in KeywordWords}

KeywordArgs == {NoKeywords} \cup {Keywords(l) : l \in ListsUpTo(MaxKw)}

ExcludeArgs ==
  { NoPattern,
    Pattern(FALSE, FALSE, FALSE, FALSE, << <<>> >>),         \* ""
    Pattern(FALSE, FALSE, FALSE, FALSE, << <<"b">> >>),      \* "b"
    Pattern(TRUE, TRUE, TRUE, FALSE, << <<"a">> >>),         \* "\b(a)\b"
    Pattern(TRUE, TRUE, FALSE, FALSE, << <<>> >>),           \* "()"
    Pattern(TRUE, FALSE, FALSE, FALSE, << <<"a">> >>) }      \* "(a"

IncludeArgs ==
  { NoPattern,
    Pattern(FALSE, FALSE, FALSE, TRUE, << <<"a">> >>),       \* "a$"
    Pattern(TRUE, TRUE, FALSE, FALSE, << <<"a">>, <<"b">> >>), \* "(a|b)"
    Pattern(FALSE, TRUE, FALSE, FALSE, << <<"b">> >>) }      \* "b)"

IdleFilter == args = Unset /\ filter = Unset /\ desc = Unset /\ verdict = Unset
IdleAge == birthdate = Unset /\ as_of = Unset /\ AGE = Unset /\ AGE_GROUP = Unset
IdleDemo ==
  /\ patients_csv = Unset /\ analysis_date = Unset /\ patients = Unset
  /\ age_summary = Unset /\ age_dist = Unset /\ gender_dist = Unset
IdleDx ==
  /\ conditions = Unset /\ clinical_conditions = Unset
  /\ top_dx_by_patients = Unset /\ top_dx_by_records = Unset
  /\ dx_demo = Unset /\ top_dx_by_gender = Unset

InitFilter ==
  /\ pc = "build"
  /\ args \in [exclude_keywords : KeywordArgs,
               exclude_regex : ExcludeArgs,
               include_regex : IncludeArgs]
  /\ filter = Unset /\ desc = Unset /\ verdict = Unset
  /\ IdleAge /\ IdleDemo /\ IdleDx

\* A call is_clinical(x) on the closure that was returned.
CallIsClinical ==
  /\ pc = "built"
  /\ \E x \in Descriptions :
       /\ desc' = x
       /\ verdict' = is_clinical(filter, x)
  /\ pc' = "called"
  /\ UNCHANGED <<args, filter, ageVars, demoVars, dxVars>>

NextFilter == build_clinical_filter \/ CallIsClinical

SpecFilter == InitFilter /\ [][NextFilter]_vars

(***************************************************************************)
(* Claims about the filter                                                 *)
(***************************************************************************)
Fold(s) == [i \in 1..Len(s) |-> Lower(s[i])]

\* k is a substring of d, ignoring case.
OccursIn(k, d) ==
  \E i \in 0..Len(d) :
    i + Len(k) <= Len(d) /\ SubSeq(Fold(d), i + 1, i + Len(k)) = Fold(k)

KeywordList(a) ==
  IF a.exclude_keywords.given THEN a.exclude_keywords.list ELSE DefaultKeywords

Blank(x) ==
  x.kind \in {"None", "nan"} \/ \A i \in 1..Len(x.s) : IsSpace(x.s[i])

PatternMatches(p, d) == re_search(re_compile(p), d)

\* The rules (a) to (e) as C1 words them, on the description without its
\* surrounding whitespace: every keyword of the list counts, and so does every
\* pattern that was given.
RulesAsWorded(a, x) ==
  IF Blank(x) THEN FALSE
  ELSE IF a.include_regex.given /\ ~PatternMatches(a.include_regex, strip(x.s))
  THEN FALSE
  ELSE IF \E n \in 1..Len(KeywordList(a)) :
            OccursIn(KeywordList(a)[n], strip(x.s))
  THEN FALSE
  ELSE IF a.exclude_regex.given /\ PatternMatches(a.exclude_regex, strip(x.s))
  THEN FALSE
  ELSE TRUE

\* The same rules where an empty keyword and an empty pattern text count as
\* not supplied.
RulesSkippingEmpty(a, x) ==
  IF Blank(x) THEN FALSE
  ELSE IF Truthy(a.include_regex) /\ ~PatternMatches(a.include_regex, strip(x.s))
  THEN FALSE
  ELSE IF \E n \in 1..Len(KeywordList(a)) :
            KeywordList(a)[n] # <<>> /\ OccursIn(KeywordList(a)[n], strip(x.s))
  THEN FALSE
  ELSE IF Truthy(a.exclude_regex) /\ PatternMatches(a.exclude_regex, strip(x.s))
  THEN FALSE
  ELSE TRUE

\* C1 as stated: is_clinical(d) is decided by rules (a) to (e), where any
\* keyword of the list occurring in d excludes it and any given exclude
\* pattern matching d excludes it.
C1_AsStated == pc = "called" => verdict = RulesAsWorded(args, desc)

\* C1 amended: is_clinical(d) is decided by rules (a) to (e) on d without its
\* surrounding whitespace, where an empty keyword and an empty pattern text
\* are skipped; the keyword exclusion and the exclude pattern both apply.
C1_Rules == pc = "called" => verdict = RulesSkippingEmpty(args, desc)

\* A keyword excludes a description that the given exclude pattern lets pass.
C1_Witness ==
  /\ pc = "called" /\ desc.kind = "str" /\ verdict = FALSE
  /\ Truthy(args.exclude_regex)
  /\ ~PatternMatches(args.exclude_regex, strip(desc.s))
  /\ ~(Truthy(args.include_regex)
        /\ ~PatternMatches(args.include_regex, strip(desc.s)))
  /\ \E n \in 1..Len(KeywordList(args)) :
       KeywordList(args)[n] # <<>> /\ OccursIn(KeywordList(args)[n], strip(desc.s))

InvalidPattern(p) == p.given /\ p.open # p.close

\* C2: with an invalid exclude_regex or include_regex the construction itself
\* raises: no closure is ever returned and no description is ever evaluated.
C2_FailsAtConstruction ==
  (InvalidPattern(args.exclude_regex) \/ InvalidPattern(args.include_regex))
    => /\ pc \in {"build", "raised"}
       /\ filter = Unset
       /\ verdict = Unset

\* The construction raised on an invalid include pattern though the exclude
\* pattern compiled.
C2_Witness ==
  /\ pc = "raised"
  /\ Truthy(args.exclude_regex) /\ ~InvalidPattern(args.exclude_regex)
  /\ InvalidPattern(args.include_regex)

(***************************************************************************)
(* Dates and ages                                                          *)
(***************************************************************************)
NaT == [kind |-> "NaT", y |-> 0, m |-> 0, d |-> 0]
Date(y, m, d) == [kind |-> "date", y |-> y, m |-> m, d |-> d]

\* A CSV date field: ISO text year-month-day, other text, or no value.
IsoText(y, m, d) == [kind |-> "iso", y |-> y, m |-> m, d |-> d]
JunkText == [kind |-> "junk", y |-> 0, m |-> 0, d |-> 0]
Missing == [kind |-> "missing", y |-> 0, m |-> 0, d |-> 0]

IsLeap(y) == (y % 4 = 0 /\ y % 100 # 0) \/ y % 400 = 0

DaysIn(y, m) ==
  IF m = 2 THEN (IF IsLeap(y) THEN 29 ELSE 28)
  ELSE IF m \in {4, 6, 9, 11} THEN 30
  ELSE 31

OnCalendar(y, m, d) == m \in 1..12 /\ d \in 1..DaysIn(y, m)

\* pd.to_datetime(s, errors="coerce"), per element: what does not parse as a
\* date of the calendar becomes NaT.
to_dt(s) ==
  IF s.kind = "iso" /\ OnCalendar(s.y, s.m, s.d) THEN Date(s.y, s.m, s.d)
  ELSE NaT

\* Numbers as pandas holds them in a column that may hold NaN.
NaN == [kind |-> "nan", v |-> 0]
Num(v) == [kind |-> "int", v |-> v]

\* (a.month, a.day) < (b.month, b.day), Python's tuple order.
MonthDayBefore(a, b) == a.m < b.m \/ (a.m = b.m /\ a.d < b.d)

\* An age floored at zero.
compute_age_years_clamped(b, a) ==
  IF b.kind = "NaT" THEN NaN
  ELSE LET years == a.y - b.y - (IF MonthDayBefore(a, b) THEN 1 ELSE 0)
       IN  Num(IF years < 0 THEN 0 ELSE years)

\* An age that counts the birthday itself as not yet reached.
compute_age_years_late(b, a) ==
  IF b.kind = "NaT" THEN NaN
  ELSE Num(a.y - b.y - (IF ~MonthDayBefore(b, a) THEN 1 ELSE 0))

\* compute_age_years(birthdate, as_of)
compute_age_years(b, a) ==
  IF b.kind = "NaT" THEN NaN
  ELSE Num(a.y - b.y - (IF MonthDayBefore(a, b) THEN 1 ELSE 0))

age_bins == <<0, 18, 40, 65, 120>>
age_labels == <<"0-17", "18-39", "40-64", "65+">>

\* The category of a value that falls in no interval, or is NaN.
NoBucket == "NaN"

\* Intervals closed on the right, as pd.cut makes them by default.
cut_right_closed(x) ==
  IF x.kind = "nan" THEN NoBucket
  ELSE IF \E i \in 1..Len(age_labels) : age_bins[i] < x.v /\ x.v <= age_bins[i + 1]
  THEN age_labels[CHOOSE i \in 1..Len(age_labels) :
                    age_bins[i] < x.v /\ x.v <= age_bins[i + 1]]
  ELSE NoBucket

\* pd.cut(x, bins=age_bins, labels=age_labels, right=False), per element.
cut(x) ==
  IF x.kind = "nan" THEN NoBucket
  ELSE IF \E i \in 1..Len(age_labels) : age_bins[i] <= x.v /\ x.v < age_bins[i + 1]
  THEN age_labels[CHOOSE i \in 1..Len(age_labels) :
                    age_bins[i] <= x.v /\ x.v < age_bins[i + 1]]
  ELSE NoBucket

(***************************************************************************)
(* compute_age_years on its own: any birth date, any as-of date.           *)
(***************************************************************************)
YearSpan == 2

Years == 2023..(2023 + YearSpan)

CalendarDates ==
  {t \in {Date(y, m, d) : y \in Years, m \in 1..12, d \in 1..31} :
     OnCalendar(t.y, t.m, t.d)}

BirthDates == CalendarDates \cup {NaT}

InitAge ==
  /\ pc = "call"
  /\ birthdate \in BirthDates
  /\ as_of \in CalendarDates
  /\ AGE = Unset /\ AGE_GROUP = Unset
  /\ IdleFilter /\ IdleDemo /\ IdleDx

\* A call compute_age_years(birthdate, as_of).
CallComputeAge ==
  /\ pc = "call"
  /\ AGE' = compute_age_years(birthdate, as_of)
  /\ pc' = "returned"
  /\ UNCHANGED <<birthdate, as_of, AGE_GROUP, filterVars, demoVars, dxVars>>

NextAge == CallComputeAge

SpecAge == InitAge /\ [][NextAge]_vars

\* The calendar day before a.
PrevDay(a) ==
  IF a.d > 1 THEN Date(a.y, a.m, a.d - 1)
  ELSE IF a.m > 1 THEN Date(a.y, a.m - 1, DaysIn(a.y, a.m - 1))
  ELSE Date(a.y - 1, 12, 31)

\* a is the first date whose (month, day) is not before b's: the day before
\* a is before b's (month, day), or in the year before.
FirstDayOfNewAge(b, a) ==
  /\ ~MonthDayBefore(a, b)
  /\ PrevDay(a).y # a.y \/ MonthDayBefore(PrevDay(a), b)

\* C3: for a valid birth date b the age is an integer, it is 0 as of b, and
\* it is exactly 1 less the day before the first date whose (month, day) is
\* not before b's.
C3_AgeSteps ==
  (pc = "returned" /\ birthdate.kind = "date") =>
    /\ AGE.kind = "int"
    /\ as_of = birthdate => AGE.v = 0
    /\ FirstDayOfNewAge(birthdate, as_of) =>
         AGE.v - compute_age_years(birthdate, PrevDay(as_of)).v = 1

\* Born on 29 February, as of 1 March of a year without one: the age is 1,
\* and a day earlier it was 0.
C3_Witness ==
  /\ pc = "returned"
  /\ birthdate.kind = "date" /\ birthdate.m = 2 /\ birthdate.d = 29
  /\ ~IsLeap(as_of.y) /\ as_of.m = 3 /\ as_of.d = 1
  /\ FirstDayOfNewAge(birthdate, as_of)
  /\ AGE = Num(1)
  /\ compute_age_years(birthdate, PrevDay(as_of)) = Num(0)

(***************************************************************************)
(* pd.cut on its own: any age.                                             *)
(***************************************************************************)
MaxAge == 122

Ages == {NaN} \cup {Num(v) : v \in (0 - 3)..MaxAge}

InitCut ==
  /\ pc = "call"
  /\ AGE \in Ages
  /\ birthdate = Unset /\ as_of = Unset /\ AGE_GROUP = Unset
  /\ IdleFilter /\ IdleDemo /\ IdleDx

\* pd.cut applied to one age.
CallCut ==
  /\ pc = "call"
  /\ AGE_GROUP' = cut(AGE)
  /\ pc' = "binned"
  /\ UNCHANGED <<birthdate, as_of, AGE, filterVars, demoVars, dxVars>>

NextCut == CallCut

SpecCut == InitCut /\ [][NextCut]_vars

\* C5: an age has the bucket of the half-open interval it lies in, lower
\* bound included and upper bound excluded, and no bucket when it is null,
\* negative, or 120 and above.
C5_Buckets ==
  pc = "binned" =>
    /\ AGE_GROUP = "0-17" <=> (AGE.kind = "int" /\ 0 <= AGE.v /\ AGE.v < 18)
    /\ AGE_GROUP = "18-39" <=> (AGE.kind = "int" /\ 18 <= AGE.v /\ AGE.v < 40)
    /\ AGE_GROUP = "40-64" <=> (AGE.kind = "int" /\ 40 <= AGE.v /\ AGE.v < 65)
    /\ AGE_GROUP = "65+" <=> (AGE.kind = "int" /\ 65 <= AGE.v /\ AGE.v < 120)
    /\ AGE_GROUP = NoBucket <=>
         (AGE.kind = "nan" \/ AGE.v < 0 \/ AGE.v >= 120)

\* The age 65, on the lower bound of the last interval, is binned "65+".
C5_Witness == pc = "binned" /\ AGE = Num(65) /\ AGE_GROUP = "65+"

(***************************************************************************)
(* pandas helpers                                                          *)
(***************************************************************************)
RECURSIVE SumSeq(_)
SumSeq(q) == IF q = <<>> THEN 0 ELSE Head(q) + SumSeq(Tail(q))

\* The elements of q at the indices in keep, in order (boolean indexing).
SelectRows(q, keep) ==
  [p \in 1..Cardinality(keep) |->
     q[CHOOSE i \in keep : Cardinality({j \in keep : j < i}) = p - 1]]

\* The default sort (kind="quicksort") is not stable: rows with equal keys
\* come out in the order they had or in the opposite order, by the build.
TieOrders == {"kept", "reversed"}

\* The place of element i in a descending sort of keys.
PlaceDesc(keys, ties, i) ==
  1 + Cardinality({j \in DOMAIN keys : keys[j] > keys[i]})
    + Cardinality({j \in DOMAIN keys :
                     /\ keys[j] = keys[i]
                     /\ IF ties = "kept" THEN j < i ELSE j > i})

\* argsort for sort_values(ascending=False): the indices in sorted order.
argsort_desc(keys, ties) ==
  LET place == [i \in DOMAIN keys |-> PlaceDesc(keys, ties, i)]
  IN  [p \in DOMAIN keys |-> CHOOSE i \in DOMAIN keys : place[i] = p]

\* The rows of table t rearranged by the index sequence perm.
Take(t, perm) == [p \in DOMAIN perm |-> t[perm[p]]]

\* n / d rounded to the nearest integer, halves to the even one.
RoundHalfEven(n, d) ==
  LET q == n \div d
      r == n % d
  IN  IF 2 * r > d \/ (2 * r = d /\ q % 2 = 1) THEN q + 1 ELSE q

\* A percentage cut, not rounded, to one decimal.
pct_truncated(count, total) ==
  IF total = 0 THEN NaN ELSE Num((count * 1000) \div total)

\* (count / total * 100).round(1), in tenths of a percent; 0/0 is NaN.
pct(count, total) ==
  IF total = 0 THEN NaN ELSE Num(RoundHalfEven(count * 1000, total))

(***************************************************************************)
(* The demographic part of the script                                      *)
(***************************************************************************)
NoGender == "NaN"

\* The GENDER values in the order groupby sorts them.
GenderOrder == <<"F", "M">>

\* value_counts that leaves the NaN group out (dropna=True).
value_counts_dropna(col, ties) ==
  LET t == [i \in 1..Len(age_labels) |->
              [AGE_GROUP |-> age_labels[i],
               COUNT |-> Cardinality({j \in DOMAIN col : col[j] = age_labels[i]})]]
  IN  Take(t, argsort_desc([i \in DOMAIN t |-> t[i].COUNT], ties))

\* col.value_counts(dropna=False) of the categorical AGE_GROUP column, with
\* the index reset: a row per category, one for NaN when there is any, by
\* descending COUNT.
value_counts(col, ties) ==
  LET cats == age_labels \o
                (IF \E j \in DOMAIN col : col[j] = NoBucket
                 THEN <<NoBucket>> ELSE <<>>)
      t == [i \in DOMAIN cats |->
              [AGE_GROUP |-> cats[i],
               COUNT |-> Cardinality({j \in DOMAIN col : col[j] = cats[i]})]]
  IN  Take(t, argsort_desc([i \in DOMAIN t |-> t[i].COUNT], ties))

\* frame.groupby("GENDER")["Id"].nunique(): a row per GENDER present, NaN
\* left out, in sorted key order.
nunique_by_gender(frame) ==
  LET t == [i \in DOMAIN GenderOrder |->
              [GENDER |-> GenderOrder[i],
               COUNT |-> Cardinality({frame[j].Id : j \in
                           {k \in DOMAIN frame : frame[k].GENDER = GenderOrder[i]}})]]
  IN  SelectRows(t, {i \in DOMAIN t : t[i].COUNT > 0})

\* The non-NaN values of the AGE column, as integers.
AgeValues(frame) ==
  LET rows == SelectRows(frame, {i \in DOMAIN frame : frame[i].AGE.kind = "int"})
  IN  [i \in DOMAIN rows |-> rows[i].AGE.v]

\* Series.min / max / mean / median, NaN skipped; NaN when nothing is left.
\* A mean or median is the fraction num/den.
Fraction(num, den) == [kind |-> "frac", num |-> num, den |-> den]
NaNFraction == [kind |-> "nan", num |-> 0, den |-> 0]

series_min(q) ==
  IF q = <<>> THEN NaN
  ELSE Num(CHOOSE x \in {q[i] : i \in DOMAIN q} : \A i \in DOMAIN q : x <= q[i])

series_max(q) ==
  IF q = <<>> THEN NaN
  ELSE Num(CHOOSE x \in {q[i] : i \in DOMAIN q} : \A i \in DOMAIN q : x >= q[i])

series_mean(q) ==
  IF q = <<>> THEN NaNFraction ELSE Fraction(SumSeq(q), Len(q))

series_median(q) ==
  IF q = <<>> THEN NaNFraction
  ELSE LET sorted == Take(q, argsort_desc(q, "kept"))
           n == Len(q)
       IN  IF n % 2 = 1 THEN Fraction(sorted[(n + 1) \div 2], 1)
           ELSE Fraction(sorted[n \div 2] + sorted[n \div 2 + 1], 2)

\* to_dt applied to the BIRTHDATE column.
parse_birthdates(frame) ==
  [i \in DOMAIN frame |->
     [Id |-> frame[i].Id,
      GENDER |-> frame[i].GENDER,
      BIRTHDATE |-> to_dt(frame[i].BIRTHDATE)]]

\* BIRTHDATE.apply(lambda x: compute_age_years(x, analysis_date)) as the AGE
\* column; an integer keeps its value in a column that also holds NaN.
with_ages(frame, date) ==
  [i \in DOMAIN frame |->
     [Id |-> frame[i].Id,
      GENDER |-> frame[i].GENDER,
      BIRTHDATE |-> frame[i].BIRTHDATE,
      AGE |-> compute_age_years(frame[i].BIRTHDATE, date)]]

\* pd.cut applied to the AGE column, as the AGE_GROUP column.
with_age_groups(frame) ==
  [i \in DOMAIN frame |->
     [Id |-> frame[i].Id,
      GENDER |-> frame[i].GENDER,
      BIRTHDATE |-> frame[i].BIRTHDATE,
      AGE |-> frame[i].AGE,
      AGE_GROUP |-> cut(frame[i].AGE)]]

\* Line 96: patients["BIRTHDATE"] = to_dt(patients["BIRTHDATE"])
ParseBirthDates ==
  /\ pc = "read"
  /\ patients' = parse_birthdates(patients_csv)
  /\ pc' = "parsed"
  /\ UNCHANGED <<patients_csv, analysis_date, age_summary, age_dist, gender_dist,
                 filterVars, ageVars, dxVars>>

\* Lines 104-105: patients["AGE"] = BIRTHDATE.apply(compute_age_years)
ComputeAges ==
  /\ pc = "parsed"
  /\ patients' = with_ages(patients, analysis_date)
  /\ pc' = "aged"
  /\ UNCHANGED <<patients_csv, analysis_date, age_summary, age_dist, gender_dist,
                 filterVars, ageVars, dxVars>>

\* Lines 109-114: patients_live["AGE_GROUP"] = pd.cut(AGE, ...)
CutAges ==
  /\ pc = "aged"
  /\ patients' = with_age_groups(patients)
  /\ pc' = "grouped"
  /\ UNCHANGED <<patients_csv, analysis_date, age_summary, age_dist, gender_dist,
                 filterVars, ageVars, dxVars>>

\* Lines 116-122: age_summary
Summarise ==
  /\ pc = "grouped"
  /\ age_summary' =
       [patients_count |-> Cardinality({patients[i].Id : i \in DOMAIN patients}),
        mean_age |-> series_mean(AgeValues(patients)),
        median_age |-> series_median(AgeValues(patients)),
        min_age |-> series_min(AgeValues(patients)),
        max_age |-> series_max(AgeValues(patients))]
  /\ pc' = "summarised"
  /\ UNCHANGED <<patients_csv, analysis_date, patients, age_dist, gender_dist,
                 filterVars, ageVars, dxVars>>

\* Lines 123-129: age_dist with its PCT column
AgeDistribution ==
  /\ pc = "summarised"
  /\ \E ties \in TieOrders :
     \E col \in {[i \in DOMAIN patients |-> patients[i].AGE_GROUP]} :
     \E t \in {value_counts(col, ties)} :
     \E total \in {SumSeq([i \in DOMAIN t |-> t[i].COUNT])} :
       age_dist' = [i \in DOMAIN t |->
                      [AGE_GROUP |-> t[i].AGE_GROUP,
                       COUNT |-> t[i].COUNT,
                       PCT |-> pct(t[i].COUNT, total)]]
  /\ pc' = "age_dist"
  /\ UNCHANGED <<patients_csv, analysis_date, patients, age_summary, gender_dist,
                 filterVars, ageVars, dxVars>>

\* Lines 153-160: gender_dist with its PCT column
GenderDistribution ==
  /\ pc = "age_dist"
  /\ \E ties \in TieOrders :
     \E g \in {nunique_by_gender(patients)} :
     \E t \in {Take(g, argsort_desc([i \in DOMAIN g |-> g[i].COUNT], ties))} :
     \E total \in {SumSeq([i \in DOMAIN t |-> t[i].COUNT])} :
       gender_dist' = [i \in DOMAIN t |->
                         [GENDER |-> t[i].GENDER,
                          COUNT |-> t[i].COUNT,
                          PCT |-> pct(t[i].COUNT, total)]]
  /\ pc' = "gender_dist"
  /\ UNCHANGED <<patients_csv, analysis_date, patients, age_summary, age_dist,
                 filterVars, ageVars, dxVars>>

NextDemo ==
  \/ ParseBirthDates
  \/ ComputeAges
  \/ CutAges
  \/ Summarise
  \/ AgeDistribution
  \/ GenderDistribution

(***************************************************************************)
(* The demographic part on small populations of any composition.           *)
(***************************************************************************)
MaxPatients == 3

\* Rows of patients.csv, Id aside: unparseable, missing and off-calendar birth
\* dates, births after the analysis date, and one or more per age bucket.
PatientKinds ==
  << [BIRTHDATE |-> JunkText, GENDER |-> "F"],
     [BIRTHDATE |-> Missing, GENDER |-> "M"],
     [BIRTHDATE |-> IsoText(2023, 2, 29), GENDER |-> NoGender],
     [BIRTHDATE |-> IsoText(2000, 1, 1), GENDER |-> "M"],
     [BIRTHDATE |-> IsoText(1990, 6, 15), GENDER |-> "F"],
     [BIRTHDATE |-> IsoText(2030, 1, 1), GENDER |-> "F"],
     [BIRTHDATE |-> IsoText(2024, 12, 31), GENDER |-> "M"],
     [BIRTHDATE |-> IsoText(2010, 3, 1), GENDER |-> "F"],
     [BIRTHDATE |-> IsoText(1970, 7, 4), GENDER |-> "M"],
     [BIRTHDATE |-> IsoText(1950, 1, 1), GENDER |-> NoGender],
     [BIRTHDATE |-> IsoText(1900, 1, 1), GENDER |-> "F"] >>

AnalysisDates == {Date(2024, 1, 1), Date(2024, 12, 31)}

\* The frame read_csv returns for rows of the given kinds; Id is unique.
CsvOf(kinds) ==
  [i \in DOMAIN kinds |->
     [Id |-> i,
      BIRTHDATE |-> PatientKinds[kinds[i]].BIRTHDATE,
      GENDER |-> PatientKinds[kinds[i]].GENDER]]

InitDemo ==
  /\ pc = "read"
  /\ \E n \in 0..MaxPatients :
       \E kinds \in [1..n -> DOMAIN PatientKinds] : patients_csv = CsvOf(kinds)
  /\ analysis_date \in AnalysisDates
  /\ patients = Unset /\ age_summary = Unset
  /\ age_dist = Unset /\ gender_dist = Unset
  /\ IdleFilter /\ IdleAge /\ IdleDx

SpecDemo == InitDemo /\ [][NextDemo]_vars

\* b is a later day than a.
DateAfter(b, a) ==
  b.y > a.y \/ (b.y = a.y /\ MonthDayBefore(a, b))

HasAges == pc \in {"aged", "grouped", "summarised", "age_dist", "gender_dist"}

\* C4: a patient born after the analysis date has a negative AGE, the year
\* difference less one if the analysis month/day is before the birth
\* month/day; it is never 0 and never null, in any later step either.
C4_NegativeAge ==
  HasAges =>
    \A i \in DOMAIN patients :
      (patients[i].BIRTHDATE.kind = "date"
         /\ DateAfter(patients[i].BIRTHDATE, analysis_date)) =>
        /\ patients[i].AGE.kind = "int"
        /\ patients[i].AGE.v < 0
        /\ patients[i].AGE.v =
             analysis_date.y - patients[i].BIRTHDATE.y
               - (IF MonthDayBefore(analysis_date, patients[i].BIRTHDATE)
                  THEN 1 ELSE 0)

\* At the end of the run a patient born later in the analysis year has AGE -1.
C4_Witness ==
  /\ pc = "gender_dist"
  /\ \E i \in DOMAIN patients :
       /\ patients[i].BIRTHDATE.kind = "date"
       /\ patients[i].BIRTHDATE.y = analysis_date.y
       /\ DateAfter(patients[i].BIRTHDATE, analysis_date)
       /\ patients[i].AGE = Num(0 - 1)

\* The birth date field of row i of the file does not parse.
Malformed(i) ==
  \/ patients_csv[i].BIRTHDATE.kind \in {"junk", "missing"}
  \/ ~OnCalendar(patients_csv[i].BIRTHDATE.y, patients_csv[i].BIRTHDATE.m,
                 patients_csv[i].BIRTHDATE.d)

\* C9: at the end of the run a patient whose birth date does not parse has a null date, a null AGE and a null
\* AGE_GROUP, is counted in patients_count, and is counted in the null row
\* of the age distribution, whose PCT is taken over all patients.
C9_MalformedDegrades ==
  pc = "gender_dist" =>
       \A i \in DOMAIN patients_csv :
         Malformed(i) =>
           /\ patients[i].BIRTHDATE = NaT
           /\ patients[i].AGE = NaN
           /\ patients[i].AGE_GROUP = NoBucket
           /\ age_summary.patients_count = Len(patients_csv)
           /\ \E r \in DOMAIN age_dist :
                /\ age_dist[r].AGE_GROUP = NoBucket
                /\ age_dist[r].COUNT =
                     Cardinality({j \in DOMAIN patients :
                                    patients[j].AGE_GROUP = NoBucket})
                /\ age_dist[r].COUNT >= 1
                /\ age_dist[r].PCT = pct(age_dist[r].COUNT, Len(patients_csv))

\* One patient of three has an unparseable birth date: the null row of the
\* age distribution counts one patient, a third (33.3 %) of all.
C9_Witness ==
  /\ pc = "gender_dist"
  /\ Len(patients_csv) = 3
  /\ patients_csv[2].BIRTHDATE = JunkText
  /\ \E r \in DOMAIN age_dist :
       age_dist[r] = [AGE_GROUP |-> NoBucket, COUNT |-> 1, PCT |-> Num(333)]

(***************************************************************************)
(* The demographic part on larger populations, given by how many patients  *)
(* there are of each of five kinds, one per row of the age distribution.   *)
(***************************************************************************)
MaxRows == 14

PctKinds == <<1, 8, 4, 9, 10>>

\* The kinds of a population with c[k] patients of kind PctKinds[k].
KindsOf(c) ==
  [i \in 1..SumSeq(c) |->
     PctKinds[CHOOSE k \in DOMAIN c :
                /\ SumSeq(SubSeq(c, 1, k - 1)) < i
                /\ i <= SumSeq(SubSeq(c, 1, k))]]

InitPct ==
  /\ pc = "read"
  /\ \E c1 \in 0..MaxRows : \E c2 \in 0..(MaxRows - c1) :
       \E c3 \in 0..(MaxRows - c1 - c2) : \E c4 \in 0..(MaxRows - c1 - c2 - c3) :
         \E c5 \in 0..(MaxRows - c1 - c2 - c3 - c4) :
           /\ c1 + c2 + c3 + c4 + c5 >= 1
           /\ patients_csv = CsvOf(KindsOf(<<c1, c2, c3, c4, c5>>))
  /\ analysis_date = Date(2024, 1, 1)
  /\ patients = Unset /\ age_summary = Unset
  /\ age_dist = Unset /\ gender_dist = Unset
  /\ IdleFilter /\ IdleAge /\ IdleDx

SpecPct == InitPct /\ [][NextDemo]_vars

\* The PCT column of a table summed, in tenths of a percent.
PctSum(t) == SumSeq([i \in DOMAIN t |-> t[i].PCT.v])

Distance(x, y) == IF x >= y THEN x - y ELSE y - x

Counted(t) == SumSeq([i \in DOMAIN t |-> t[i].COUNT]) >= 1

\* C6 as stated: in the age and in the gender distribution, the PCT values
\* sum to 100.0 within 0.1, whatever the number of rows.
C6_AsStated ==
  /\ (pc \in {"age_dist", "gender_dist"} /\ Counted(age_dist)) =>
       Distance(PctSum(age_dist), 1000) <= 1
  /\ (pc = "gender_dist" /\ Counted(gender_dist)) =>
       Distance(PctSum(gender_dist), 1000) <= 1

\* C6 amended: in the age and in the gender distribution, the PCT values sum
\* to 100.0 within 0.05 per row of the table.
C6_SumWithinHalfTenthPerRow ==
  /\ (pc \in {"age_dist", "gender_dist"} /\ Counted(age_dist)) =>
       2 * Distance(PctSum(age_dist), 1000) <= Len(age_dist)
  /\ (pc = "gender_dist" /\ Counted(gender_dist)) =>
       2 * Distance(PctSum(gender_dist), 1000) <= Len(gender_dist)

\* A five-row age distribution whose PCT column sums to 99.8, beside a
\* two-row gender distribution whose PCT column sums to 100.0.
C6_Witness ==
  /\ pc = "gender_dist"
  /\ Len(age_dist) = 5 /\ PctSum(age_dist) = 998
  /\ Len(gender_dist) = 2 /\ PctSum(gender_dist) = 1000

(***************************************************************************)
(* The diagnosis part of the script                                        *)
(***************************************************************************)
\* The characters of the descriptions in code point order, as Python
\* compares strings.
CharOrder ==
  <<" ", "(", ")", "-">> \o
  <<"0","1","2","3","4","5","6","7","8","9">> \o UpperLetters \o <<"_">> \o LowerLetters

RankOf ==
  [c \in {CharOrder[i] : i \in DOMAIN CharOrder} |->
     CHOOSE i \in DOMAIN CharOrder : CharOrder[i] = c]

\* a < b for two texts.
TextLess(a, b) ==
  \E k \in 1..Len(b) :
    /\ k <= Len(a) + 1
    /\ \A j \in 1..(k - 1) : a[j] = b[j]
    /\ k = Len(a) + 1 \/ RankOf[a[k]] < RankOf[b[k]]

\* The group keys of a groupby on text values, sorted; NaN is no key.
sorted_keys(values) ==
  LET keys == {x \in values : x.kind = "str"}
      rank == [x \in keys |-> Cardinality({y \in keys : TextLess(y.s, x.s)})]
  IN  [p \in 1..Cardinality(keys) |-> CHOOSE x \in keys : rank[x] = p - 1]

\* Series.size per group: every record counts.
nunique_size(rows, d) ==
  Cardinality({i \in DOMAIN rows : rows[i].DESCRIPTION = d})

\* Series.nunique() of PATIENT in the group of description d.
nunique(rows, d) ==
  Cardinality({rows[i].PATIENT : i \in {j \in DOMAIN rows : rows[j].DESCRIPTION = d}})

\* rows.groupby("DESCRIPTION")["PATIENT"].nunique(), in sorted key order.
nunique_by_description(rows) ==
  LET keys == sorted_keys({rows[i].DESCRIPTION : i \in DOMAIN rows})
  IN  [k \in DOMAIN keys |->
         [DESCRIPTION |-> keys[k], UNIQUE_PATIENTS |-> nunique(rows, keys[k])]]

\* rows["DESCRIPTION"].value_counts() before its sort: a row per distinct
\* description, in order of first appearance.
counts_by_description(rows) ==
  LET firsts == SelectRows(rows,
                  {i \in DOMAIN rows :
                     /\ rows[i].DESCRIPTION.kind = "str"
                     /\ \A j \in 1..(i - 1) :
                          rows[j].DESCRIPTION # rows[i].DESCRIPTION})
  IN  [k \in DOMAIN firsts |->
         [DESCRIPTION |-> firsts[k].DESCRIPTION,
          RECORDS |-> Cardinality({i \in DOMAIN rows :
                                     rows[i].DESCRIPTION = firsts[k].DESCRIPTION})]]

\* .head(20)
TopN == 20

head(t, n) == SubSeq(t, 1, IF Len(t) < n THEN Len(t) ELSE n)

\* A row of the left join for a condition c that matches no patient.
Unmatched(c) ==
  [PATIENT |-> c.PATIENT, DESCRIPTION |-> c.DESCRIPTION, Id |-> NaN,
   GENDER |-> NoGender, AGE |-> NaN, AGE_GROUP |-> NoBucket]

\* left.merge(right[["Id","GENDER","AGE","AGE_GROUP"]], left_on="PATIENT",
\* right_on="Id", how="left"): every left row, once per matching right row,
\* or once with null right columns.
RECURSIVE merge_left(_, _)
merge_left(left, right) ==
  IF left = <<>> THEN <<>>
  ELSE LET c == Head(left)
           m == SelectRows(right, {k \in DOMAIN right : right[k].Id = c.PATIENT})
       IN  (IF m = <<>> THEN <<Unmatched(c)>>
            ELSE [k \in DOMAIN m |->
                    [PATIENT |-> c.PATIENT, DESCRIPTION |-> c.DESCRIPTION,
                     Id |-> Num(m[k].Id), GENDER |-> m[k].GENDER,
                     AGE |-> m[k].AGE, AGE_GROUP |-> m[k].AGE_GROUP]])
           \o merge_left(Tail(left), right)

\* The groups of frame by (GENDER, DESCRIPTION) for the given gender keys, in
\* sorted key order, with the number of distinct PATIENT of each.
grouped_nunique(frame, genders) ==
  LET dkeys == sorted_keys({frame[i].DESCRIPTION : i \in DOMAIN frame})
      n == Len(dkeys)
      all == [q \in 1..(Len(genders) * n) |->
                LET g == genders[((q - 1) \div n) + 1]
                    d == dkeys[((q - 1) % n) + 1]
                IN  [GENDER |-> g, DESCRIPTION |-> d,
                     UNIQUE_PATIENTS |->
                       Cardinality({frame[i].PATIENT : i \in
                         {j \in DOMAIN frame :
                            frame[j].GENDER = g /\ frame[j].DESCRIPTION = d}})]]
  IN  SelectRows(all, {q \in DOMAIN all : all[q].UNIQUE_PATIENTS > 0})

\* The same groupby with dropna=False: a null GENDER is a group key too.
nunique_by_gender_description_keepna(frame) ==
  grouped_nunique(frame, GenderOrder \o <<NoGender>>)

\* frame.groupby(["GENDER","DESCRIPTION"])["PATIENT"].nunique(), index reset:
\* rows with a null GENDER belong to no group.
nunique_by_gender_description(frame) == grouped_nunique(frame, GenderOrder)

GenderRank(g) ==
  IF g = NoGender THEN Len(GenderOrder) + 1
  ELSE CHOOSE i \in DOMAIN GenderOrder : GenderOrder[i] = g

\* Row a sorts before row b by GENDER ascending, UNIQUE_PATIENTS descending.
GenderCountBefore(a, b) ==
  \/ GenderRank(a.GENDER) < GenderRank(b.GENDER)
  \/ a.GENDER = b.GENDER /\ a.UNIQUE_PATIENTS > b.UNIQUE_PATIENTS

\* t.sort_values(["GENDER","UNIQUE_PATIENTS"], ascending=[True, False]): a
\* sort on several columns is a lexsort, which keeps equal rows in order.
sort_gender_count(t) ==
  LET place == [i \in DOMAIN t |->
                  1 + Cardinality({j \in DOMAIN t : GenderCountBefore(t[j], t[i])})
                    + Cardinality({j \in DOMAIN t :
                                     /\ j < i
                                     /\ ~GenderCountBefore(t[j], t[i])
                                     /\ ~GenderCountBefore(t[i], t[j])})]
  IN  [p \in DOMAIN t |-> t[CHOOSE i \in DOMAIN t : place[i] = p]]

\* Lines 178-183: the arguments the script builds its filter with.
ScriptArgs ==
  [exclude_keywords |-> NoKeywords,
   exclude_regex |->
     Pattern(TRUE, TRUE, TRUE, FALSE,
       << <<"e","m","p","l","o","y","m","e","n","t">>,
          <<"l","a","b","o","r"," ","f","o","r","c","e">>,
          <<"s","o","c","i","a","l">>,
          <<"m","e","d","i","c","a","t","i","o","n"," ","r","e","v","i","e","w">>,
          <<"a","d","m","i","n","i","s","t","r","a","t","i","v","e">> >>),
   include_regex |-> NoPattern]

\* Lines 185-188: the IS_CLINICAL column and the rows that have it.
ClassifyConditions ==
  /\ pc = "built"
  /\ \E flagged \in {[i \in DOMAIN conditions |->
                        [PATIENT |-> conditions[i].PATIENT,
                         DESCRIPTION |-> conditions[i].DESCRIPTION,
                         IS_CLINICAL |->
                           is_clinical(filter, conditions[i].DESCRIPTION)]]} :
       /\ conditions' = flagged
       /\ clinical_conditions' =
            SelectRows(flagged, {i \in DOMAIN flagged : flagged[i].IS_CLINICAL})
  /\ pc' = "classified"
  /\ UNCHANGED <<top_dx_by_patients, top_dx_by_records, dx_demo, top_dx_by_gender,
                 filterVars, ageVars, demoVars>>

\* Lines 191-198: top_dx_by_patients
TopByPatients ==
  /\ pc = "classified"
  /\ \E ties \in TieOrders :
     \E g \in {nunique_by_description(clinical_conditions)} :
       top_dx_by_patients' =
         head(Take(g, argsort_desc([i \in DOMAIN g |-> g[i].UNIQUE_PATIENTS], ties)),
              TopN)
  /\ pc' = "top_patients"
  /\ UNCHANGED <<conditions, clinical_conditions, top_dx_by_records, dx_demo,
                 top_dx_by_gender, filterVars, ageVars, demoVars>>

\* Lines 201-207: top_dx_by_records
TopByRecords ==
  /\ pc = "top_patients"
  /\ \E ties \in TieOrders :
     \E g \in {counts_by_description(clinical_conditions)} :
       top_dx_by_records' =
         head(Take(g, argsort_desc([i \in DOMAIN g |-> g[i].RECORDS], ties)), TopN)
  /\ pc' = "top_records"
  /\ UNCHANGED <<conditions, clinical_conditions, top_dx_by_patients, dx_demo,
                 top_dx_by_gender, filterVars, ageVars, demoVars>>

\* Lines 233-238: dx_demo
MergeDemographics ==
  /\ pc = "top_records"
  /\ dx_demo' = merge_left(clinical_conditions, patients)
  /\ pc' = "merged"
  /\ UNCHANGED <<conditions, clinical_conditions, top_dx_by_patients,
                 top_dx_by_records, top_dx_by_gender,
                 filterVars, ageVars, demoVars>>

\* Lines 241-247: top_dx_by_gender
TopByGender ==
  /\ pc = "merged"
  /\ \E g \in {nunique_by_gender_description(dx_demo)} :
       top_dx_by_gender' = sort_gender_count(g)
  /\ pc' = "by_gender"
  /\ UNCHANGED <<conditions, clinical_conditions, top_dx_by_patients,
                 top_dx_by_records, dx_demo, filterVars, ageVars, demoVars>>

NextDx ==
  \/ build_clinical_filter
  \/ ClassifyConditions
  \/ TopByPatients
  \/ TopByRecords
  \/ MergeDemographics
  \/ TopByGender

(***************************************************************************)
(* The diagnosis part on small condition files of any composition, entered *)
(* with the patients frame as the demographic part leaves it (its tables   *)
(* are not read again).                                                    *)
(***************************************************************************)
MaxCond == 3

Hypertension == <<"H","y","p","e","r","t","e","n","s","i","o","n">>

\* PATIENT 9 is the Id of no patient.
ConditionRows ==
  {[PATIENT |-> p, DESCRIPTION |-> PyStr(d)] :
     p \in {1, 2, 9}, d \in {ViralSinusitis, Hypertension}}
  \cup {[PATIENT |-> 1, DESCRIPTION |-> PyStr(FullTimeEmployment)],
        [PATIENT |-> 2, DESCRIPTION |-> PyNaN]}

\* Two patients: both male; one male, one female; one female, one without
\* gender.
DxPopulations == {<<4, 4>>, <<4, 5>>, <<5, 10>>}

EnrichedFrame(csv, date) == with_age_groups(with_ages(parse_birthdates(csv), date))

InitDx ==
  /\ pc = "build"
  /\ args = ScriptArgs
  /\ filter = Unset /\ desc = Unset /\ verdict = Unset
  /\ \E kinds \in DxPopulations : patients_csv = CsvOf(kinds)
  /\ analysis_date = Date(2024, 1, 1)
  /\ patients = EnrichedFrame(patients_csv, analysis_date)
  /\ age_summary = Unset /\ age_dist = Unset /\ gender_dist = Unset
  /\ \E n \in 0..MaxCond : conditions \in [1..n -> ConditionRows]
  /\ clinical_conditions = Unset
  /\ top_dx_by_patients = Unset /\ top_dx_by_records = Unset
  /\ dx_demo = Unset /\ top_dx_by_gender = Unset
  /\ IdleAge

SpecDx == InitDx /\ [][NextDx]_vars

(***************************************************************************)
(* The diagnosis part on condition files with many distinct diagnoses: the *)
(* first n of "Dx a", "Dx b", ... for patient 1, and a few more rows.       *)
(***************************************************************************)
MaxBulk == 21
MaxExtra == 1

BulkText(i) == <<"D", "x", " ", LowerLetters[i]>>

BulkRows(n) == [i \in 1..n |-> [PATIENT |-> 1, DESCRIPTION |-> PyStr(BulkText(i))]]

ExtraRows ==
  {[PATIENT |-> 2, DESCRIPTION |-> PyStr(BulkText(1))],
   [PATIENT |-> 1, DESCRIPTION |-> PyStr(BulkText(2))],
   [PATIENT |-> 2, DESCRIPTION |-> PyStr(BulkText(MaxBulk))],
   [PATIENT |-> 2, DESCRIPTION |-> PyStr(ViralSinusitis)],
   [PATIENT |-> 1, DESCRIPTION |-> PyStr(FullTimeEmployment)]}

InitTop ==
  /\ pc = "build"
  /\ args = ScriptArgs
  /\ filter = Unset /\ desc = Unset /\ verdict = Unset
  /\ patients_csv = CsvOf(<<4, 5>>)
  /\ analysis_date = Date(2024, 1, 1)
  /\ patients = EnrichedFrame(patients_csv, analysis_date)
  /\ age_summary = Unset /\ age_dist = Unset /\ gender_dist = Unset
  /\ \E n \in 0..MaxBulk : \E k \in 0..MaxExtra :
       \E extra \in [1..k -> ExtraRows] : conditions = BulkRows(n) \o extra
  /\ clinical_conditions = Unset
  /\ top_dx_by_patients = Unset /\ top_dx_by_records = Unset
  /\ dx_demo = Unset /\ top_dx_by_gender = Unset
  /\ IdleAge

SpecTop == InitTop /\ [][NextDx]_vars

(***************************************************************************)
(* The diagnosis tables.                                                   *)
(***************************************************************************)
HasTopTables == pc \in {"top_records", "merged", "by_gender"}

\* The condition records classified clinical, by their position in the file.
ClinicalRecords == {i \in DOMAIN conditions : conditions[i].IS_CLINICAL}

RecordsOf(d) == {i \in ClinicalRecords : conditions[i].DESCRIPTION = d}

PatientsOf(d) == {conditions[i].PATIENT : i \in RecordsOf(d)}

ClinicalDescriptions == {conditions[i].DESCRIPTION : i \in ClinicalRecords}

Listed(t) == {t[r].DESCRIPTION : r \in DOMAIN t}

SortedDescending(t) ==
  \A r \in DOMAIN t : \A q \in DOMAIN t :
    r < q => t[r].UNIQUE_PATIENTS >= t[q].UNIQUE_PATIENTS

NoneLeftOutHigher(t) ==
  \A d \in ClinicalDescriptions \ Listed(t) :
    \A r \in DOMAIN t : Cardinality(PatientsOf(d)) <= t[r].UNIQUE_PATIENTS

\* Rows with equal counts stand in the order the grouping gave them, which is
\* the sorted order of the descriptions.
TiesInOriginalOrder(t) ==
  \A r \in DOMAIN t : \A q \in DOMAIN t :
    (r < q /\ t[r].UNIQUE_PATIENTS = t[q].UNIQUE_PATIENTS)
      => TextLess(t[r].DESCRIPTION.s, t[q].DESCRIPTION.s)

\* C7, as stated: the top-diagnoses-by-unique-patients table has at most 20
\* rows, sorted by descending count, no description left out has a strictly
\* higher count than one kept, and descriptions with equal counts keep the
\* order they had before the sort.
C7_AsStated ==
  HasTopTables =>
    /\ Len(top_dx_by_patients) <= TopN
    /\ SortedDescending(top_dx_by_patients)
    /\ NoneLeftOutHigher(top_dx_by_patients)
    /\ TiesInOriginalOrder(top_dx_by_patients)

\* The same table without the order of equal counts: at most 20 rows, sorted
\* by descending count, nothing left out that counts strictly higher.
TopTableSortedAndTruncated ==
  HasTopTables =>
    /\ Len(top_dx_by_patients) <= TopN
    /\ SortedDescending(top_dx_by_patients)
    /\ NoneLeftOutHigher(top_dx_by_patients)

\* More than 20 diagnoses with equal counts went into the sort.
ManyTiesSorted ==
  /\ HasTopTables
  /\ Cardinality(ClinicalDescriptions) > TopN
  /\ Len(top_dx_by_patients) = TopN

ExampleConditions ==
  <<[PATIENT |-> 1, DESCRIPTION |-> PyStr(ViralSinusitis)],
    [PATIENT |-> 1, DESCRIPTION |-> PyStr(FullTimeEmployment)]>>

FileRows ==
  [i \in DOMAIN conditions |->
     [PATIENT |-> conditions[i].PATIENT, DESCRIPTION |-> conditions[i].DESCRIPTION]]

\* C8: only records classified clinical contribute to the diagnosis tables;
\* UNIQUE_PATIENTS of a description is the number of distinct patients among
\* its clinical records, RECORDS is the number of those records; for the
\* conditions [P1 Viral sinusitis (disorder), P1 Full-time employment
\* (finding)] the by-patient table is the one row (Viral sinusitis
\* (disorder), 1).
C8_DistinctPatients ==
  HasTopTables =>
    /\ clinical_conditions = SelectRows(conditions, ClinicalRecords)
    /\ Listed(top_dx_by_patients) \subseteq ClinicalDescriptions
    /\ Listed(top_dx_by_records) \subseteq ClinicalDescriptions
    /\ Cardinality(ClinicalDescriptions) <= TopN =>
         /\ Listed(top_dx_by_patients) = ClinicalDescriptions
         /\ Listed(top_dx_by_records) = ClinicalDescriptions
    /\ Len(top_dx_by_patients) = Cardinality(Listed(top_dx_by_patients))
    /\ Len(top_dx_by_records) = Cardinality(Listed(top_dx_by_records))
    /\ \A r \in DOMAIN top_dx_by_patients :
         top_dx_by_patients[r].UNIQUE_PATIENTS =
           Cardinality(PatientsOf(top_dx_by_patients[r].DESCRIPTION))
    /\ \A r \in DOMAIN top_dx_by_records :
         top_dx_by_records[r].RECORDS =
           Cardinality(RecordsOf(top_dx_by_records[r].DESCRIPTION))
    /\ FileRows = ExampleConditions =>
         top_dx_by_patients =
           <<[DESCRIPTION |-> PyStr(ViralSinusitis), UNIQUE_PATIENTS |-> 1]>>

\* A patient has two records of one clinical diagnosis, next to a record
\* that is not clinical.
C8_Witness ==
  /\ HasTopTables
  /\ ClinicalRecords # DOMAIN conditions
  /\ \E r \in DOMAIN top_dx_by_patients : \E q \in DOMAIN top_dx_by_records :
       /\ top_dx_by_patients[r].DESCRIPTION = top_dx_by_records[q].DESCRIPTION
       /\ top_dx_by_patients[r].UNIQUE_PATIENTS = 1
       /\ top_dx_by_records[q].RECORDS = 2

\* The spec's example has run through both tables.
ExampleTabulated == HasTopTables /\ FileRows = ExampleConditions

GenderOf(p) ==
  IF \E k \in DOMAIN patients : patients[k].Id = p
  THEN patients[CHOOSE k \in DOMAIN patients : patients[k].Id = p].GENDER
  ELSE NoGender

PatientsOfGender(g, d) == {p \in PatientsOf(d) : GenderOf(p) = g}

\* C10: the left join keeps every clinical condition record, with null
\* GENDER when no patient matches; each row of the cross-tabulation has a
\* non-null gender and the number of distinct patients of that gender with a
\* clinical record of that description; no such pair is missing or repeated;
\* rows are ordered by gender ascending and, within a gender, by
\* UNIQUE_PATIENTS descending.
C10_CrossTab ==
  pc = "by_gender" =>
    /\ Len(dx_demo) = Len(clinical_conditions)
    /\ \A i \in DOMAIN dx_demo :
         /\ dx_demo[i].PATIENT = clinical_conditions[i].PATIENT
         /\ dx_demo[i].DESCRIPTION = clinical_conditions[i].DESCRIPTION
         /\ dx_demo[i].GENDER = GenderOf(dx_demo[i].PATIENT)
    /\ \A r \in DOMAIN top_dx_by_gender :
         LET row == top_dx_by_gender[r]
         IN  /\ row.GENDER # NoGender
             /\ row.UNIQUE_PATIENTS > 0
             /\ row.UNIQUE_PATIENTS =
                  Cardinality(PatientsOfGender(row.GENDER, row.DESCRIPTION))
    /\ \A g \in {"F", "M"} : \A d \in ClinicalDescriptions :
         PatientsOfGender(g, d) # {} =>
           Cardinality({r \in DOMAIN top_dx_by_gender :
                          /\ top_dx_by_gender[r].GENDER = g
                          /\ top_dx_by_gender[r].DESCRIPTION = d}) = 1
    /\ \A r \in DOMAIN top_dx_by_gender : \A q \in DOMAIN top_dx_by_gender :
         r < q =>
           \/ top_dx_by_gender[r].GENDER = "F" /\ top_dx_by_gender[q].GENDER = "M"
           \/ /\ top_dx_by_gender[r].GENDER = top_dx_by_gender[q].GENDER
              /\ top_dx_by_gender[r].UNIQUE_PATIENTS >=
                   top_dx_by_gender[q].UNIQUE_PATIENTS

\* A clinical record of a patient that is in no patient row was joined, next
\* to records of a woman and of a man.
C10_Witness ==
  /\ pc = "by_gender"
  /\ \E i \in DOMAIN dx_demo : dx_demo[i].Id = NaN /\ dx_demo[i].GENDER = NoGender
  /\ \E r \in DOMAIN top_dx_by_gender : top_dx_by_gender[r].GENDER = "F"
  /\ \E r \in DOMAIN top_dx_by_gender : top_dx_by_gender[r].GENDER = "M"

\* Within a gender the groupby order was not the descending order of counts.
CrossTabReordered ==
  /\ pc = "by_gender"
  /\ \E r \in DOMAIN top_dx_by_gender : \E q \in DOMAIN top_dx_by_gender :
       /\ r < q
       /\ top_dx_by_gender[r].GENDER = top_dx_by_gender[q].GENDER
       /\ top_dx_by_gender[r].UNIQUE_PATIENTS > top_dx_by_gender[q].UNIQUE_PATIENTS
       /\ TextLess(top_dx_by_gender[q].DESCRIPTION.s, top_dx_by_gender[r].DESCRIPTION.s)

====
